---- MODULE Spec2Model ----
(***************************************************************************)
(* SplitSmart (Transact): the expense / split / balance logic of the React *)
(* client and the PostgreSQL schema it runs against.                        *)
(*                                                                         *)
(* Money is counted in minor units (1 = 0.01 of the currency), the scale   *)
(* of the DECIMAL(10,2) columns.  Every supabase call is one statement,    *)
(* committed on its own; a handler that makes several calls is several     *)
(* steps, and other clients may run between them.                          *)
(***************************************************************************)
EXTENDS Integers, Sequences, FiniteSets, TLC

\* ------------------------------------------------------------ bounds
NumUsers == 3
NumClients == 2
MaxAmount == 2
MaxExpenses == 1
MaxSplitRows == 6
MaxGroups == 2

\* ------------------------------------------------- program constants
\* Math.abs(totalCustom - expenseAmount) > 0.01, in minor units
Tolerance == 1

Users == 1..NumUsers
Clients == 1..NumClients
Amounts == 1..MaxAmount
\* what parseFloat makes of a field that is empty or negative (NaN fails the
\* same test as a negative number), and of a field that holds 0
InvalidAmounts == {-1, 0}
\* the amount field: type="number", step="0.01"
AmountInputs == InvalidAmounts \cup Amounts
\* the group every client has opened in its GroupView
TheGroup == 1
GroupIds == 1..MaxGroups

VARIABLES
    expenses,        \* table expenses: set of rows [id, group_id, paid_by, amount]
    expense_splits,  \* table expense_splits: rows [expense_id, user_id, amount], in stored order
    group_members,   \* table group_members: set of rows [id, group_id, user_id]
    nextId,          \* the next expenses.id the database generates
    login,           \* useAuth().user of every client
    session,         \* per client: the handler it is in and the handler's locals
    last,            \* the outcome of the handler that ended last (its toast)
    users,           \* table users: set of rows [id, email]
    groups,          \* table groups: set of rows [id, created_by]
    selectedGroup,   \* Dashboard's selectedGroup of every client (NoGroup: the dashboard)
    shown,           \* per client: the balances its views have fetched
    dialog           \* per client: the group or member dialog's handler and its locals

vars == <<expenses, expense_splits, group_members, nextId, login, session, last,
          users, groups, selectedGroup, shown, dialog>>

\* what the expense handlers and cards leave alone
directory == <<users, groups, selectedGroup, shown, dialog>>

\* ------------------------------------------------------------ helpers
RECURSIVE SumSeq(_)
SumSeq(s) == IF s = <<>> THEN 0 ELSE Head(s) + SumSeq(Tail(s))

Abs(x) == IF x < 0 THEN -x ELSE x

Range(s) == {s[i] : i \in DOMAIN s}

IsPow2(n) == n \in {1, 2, 4, 8, 16}

\* The values a DECIMAL(10,2) column may store for the double num/den (both
\* in minor units, den > 0).  PostgreSQL rounds the decimal text of the double
\* half away from zero.  Off a tie the double's error is far below half a minor
\* unit, so the nearest value is stored.  On an exact tie the double lies just
\* above or just below the tie, so either neighbour may be stored, unless the
\* quotient is exact in binary (exact = TRUE), when the tie rounds away from zero.
Round2(num, den, exact) ==
    LET a == Abs(num)
        q == a \div den
        r == a % den
        sgn == IF num < 0 THEN -1 ELSE 1
        mags == IF 2 * r < den THEN {q}
                ELSE IF 2 * r > den THEN {q + 1}
                ELSE IF exact THEN {q + 1}
                ELSE {q, q + 1}
    IN  {sgn * m : m \in mags}

\* ------------------------------------------------------------- tables
ExpenseRow(id) == CHOOSE e \in expenses : e.id = id

ExpenseStored(id) == \E e \in expenses : e.id = id

IsMember(g, u) == \E m \in group_members : m.group_id = g /\ m.user_id = u

\* the split rows of expense id, in stored order
SplitsOf(id) == SelectSeq(expense_splits, LAMBDA r : r.expense_id = id)

SplitAmounts(rows) == [i \in DOMAIN rows |-> rows[i].amount]

SplitSum(id) == SumSeq(SplitAmounts(SplitsOf(id)))

\* ------------------------------------------------ calculate_user_balance
RECURSIVE SumAmounts(_)
SumAmounts(rows) ==
    IF rows = {} THEN 0
    ELSE LET r == CHOOSE x \in rows : TRUE
         IN  r.amount + SumAmounts(rows \ {r})

\* SUM(amount) FROM expenses WHERE paid_by = p_user_id AND group_id = p_group_id
total_paid(p_user_id, p_group_id) ==
    SumAmounts({e \in expenses : e.paid_by = p_user_id /\ e.group_id = p_group_id})

\* the sum without AND e.group_id = p_group_id
total_owed_any_group(p_user_id, p_group_id) ==
    SumSeq(SplitAmounts(SelectSeq(expense_splits,
        LAMBDA r : /\ r.user_id = p_user_id
                   /\ \E e \in expenses : e.id = r.expense_id)))

\* SUM(es.amount) FROM expense_splits es JOIN expenses e ON e.id = es.expense_id
\* WHERE es.user_id = p_user_id AND e.group_id = p_group_id
total_owed(p_user_id, p_group_id) ==
    SumSeq(SplitAmounts(SelectSeq(expense_splits,
        LAMBDA r : /\ r.user_id = p_user_id
                   /\ \E e \in expenses : e.id = r.expense_id /\ e.group_id = p_group_id)))

calculate_user_balance(p_user_id, p_group_id) ==
    total_paid(p_user_id, p_group_id) - total_owed(p_user_id, p_group_id)

\* --------------------------------------------------- row level security
\* "Users can create expenses in their groups"
ExpensesInsertPolicy(uid, row) == IsMember(row.group_id, uid)

\* "Users can create splits for expenses in their groups"
SplitsInsertPolicy(uid, row) ==
    \E e \in expenses : e.id = row.expense_id /\ IsMember(e.group_id, uid)

\* -------------------------------------------------------- client state
NoExpense == [id |-> 0, amount |-> 0, paid_by |-> 0, splits |-> <<>>]

\* pc: the call the client's handler makes next; expense: the card the client
\* has loaded; id, amount, rows: the locals of the handler in progress
\* pre: the two tables as they were when the handler in progress started
Idle == [pc |-> "idle", expense |-> NoExpense, id |-> 0, amount |-> 0, rows |-> <<>>,
         pre |-> <<{}, <<>>>>]

NoResult == [client |-> 0, op |-> "none", result |-> "none", id |-> 0, pre |-> <<{}, <<>>>>]

Database == <<expenses, expense_splits>>

\* the dashboard is shown, no GroupView
NoGroup == 0

\* members: GroupView's member balances; groups: Dashboard's group balances
\* fetchGroupData's client-side balance of one member, between its queries
NoFold == [user |-> 0, totalPaid |-> 0, ids |-> {}, pc |-> "none"]

\* pending: the members whose balance a fetchGroupData in progress has not
\* got yet; partial: the balances it has got; seen: the tables as they were
\* at its calls; how: by rpc or in the client; fold: the member it is at
NoBalances == [members |-> {}, groups |-> {}, pending |-> {}, partial |-> {}, seen |-> {},
               how |-> "none", fold |-> NoFold]

\* pc: the call the dialog's handler makes next; groupId, userId, email: its locals
NoDialog == [pc |-> "idle", groupId |-> NoGroup, userId |-> 0, email |-> 0]

\* group_members.id, gen_random_uuid(): a value no other row has; k is the
\* number of rows the pair has already
MemberId(g, u, k) == (g * (NumUsers + 1) + u) * (NumClients + 1) + k

\* users.id, uuid_generate_v4(): a value no other row has; k is the number of
\* rows the address has already
UserId(email, k) == email + k * (NumUsers + 1)

\* who is signed in where: client 1 as user 1, every other client as user 1
\* again (a second device) or as user 2; users differ in nothing but their id
Logins == {f \in [Clients -> Users] : f[1] = 1 /\ \A c \in Clients : f[c] <= 2}

\* the ways to leave boxes of the member list checked: selectedMembers starts
\* as the member list and unchecking filters it (lines 57, 163-169)
RECURSIVE SubSeqs(_)
SubSeqs(s) ==
    IF s = <<>> THEN {<<>>}
    ELSE LET rest == SubSeqs(Tail(s))
         IN  rest \cup {<<Head(s)>> \o t : t \in rest}

MemberList == [i \in 1..NumUsers |-> i]

Selections == SubSeqs(MemberList) \ {<<>>}

Init ==
    /\ expenses = {}
    /\ expense_splits = <<>>
    /\ group_members = {[id |-> MemberId(TheGroup, u, 0), group_id |-> TheGroup, user_id |-> u] :
                            u \in Users}
    /\ nextId = 1
    /\ login \in Logins
    /\ session = [c \in Clients |-> Idle]
    /\ last = NoResult
    /\ users = {[id |-> UserId(u, 0), email |-> u] : u \in Users}
    /\ groups = {[id |-> TheGroup, created_by |-> 1]}
    /\ selectedGroup = [c \in Clients |-> TheGroup]
    /\ shown = [c \in Clients |-> NoBalances]
    /\ dialog = [c \in Clients |-> NoDialog]

\* ------------------------------------------- AddExpenseDialog.handleSubmit
\* the client has a GroupView open, and with it the dialogs and the cards
InGroupView(c) == selectedGroup[c] # NoGroup

\* the submit button with no box checked
canSubmitAlways(selectedMembers) == TRUE

\* disabled={isLoading || selectedMembers.length === 0} (line 307): the form
\* is submitted with one participant at least
canSubmit(selectedMembers) == Len(selectedMembers) # 0

\* every participant charged the whole amount
EqualSplitAmountsUndivided(amount, n) == {amount}

\* what the column may store for expenseAmount / selectedMembers.length (line
\* 87); with no participant the quotient is Infinity and no row carries it
EqualSplitAmounts(amount, n) ==
    IF n = 0 THEN {0} ELSE Round2(amount, n, IsPow2(n))

\* the splits of the "equal" branch (lines 86-91): one quotient, computed once
EqualSplits(selectedMembers, splitAmount) ==
    [i \in DOMAIN selectedMembers |->
        [user_id |-> selectedMembers[i], amount |-> splitAmount]]

\* the splits of the "custom" branch (lines 108-111); declared[i] is the
\* amount typed for selectedMembers[i]
CustomSplits(selectedMembers, declared) ==
    [i \in DOMAIN selectedMembers |->
        [user_id |-> selectedMembers[i], amount |-> declared[i]]]

\* Math.abs(totalCustom - expenseAmount) > 0.01 on doubles (line 98): a
\* difference of exactly one minor unit falls on either side of 0.01, as the
\* doubles' rounding has it (fp)
SplitMismatch(totalCustom, expenseAmount, fp) ==
    LET d == Abs(totalCustom - expenseAmount)
    IN  d > Tolerance \/ (d = Tolerance /\ fp)

\* the amounts that can be typed for n participants
Declared == [n \in 1..NumUsers |-> [1..n -> 0..MaxAmount]]

\* the toast a handler ends with, and the tables as they were when it started
Toast(c, op, result, id) ==
    last' = [client |-> c, op |-> op, result |-> result, id |-> id,
             pre |-> IF session[c].pc = "idle" THEN Database ELSE session[c].pre]

\* a handler that succeeds reloads the group view (onExpenseAdded,
\* onExpenseUpdated): the card it had is gone, FetchExpenses loads the new one
Finish(c, op, result, id) ==
    /\ session' = [session EXCEPT ![c] = Idle]
    /\ Toast(c, op, result, id)

\* a handler that fails or returns early reloads nothing: the card stays
Fail(c, op, result, id) ==
    /\ session' = [session EXCEPT ![c] = [Idle EXCEPT !.expense = session[c].expense]]
    /\ Toast(c, op, result, id)

\* the amount check (lines 70-80): nothing is written
AddExpenseInvalid(c, amount) ==
    /\ session[c].pc = "idle"
    /\ InGroupView(c)
    /\ amount <= 0
    /\ Fail(c, "add", "invalid_amount", 0)
    /\ UNCHANGED <<expenses, expense_splits, group_members, nextId, login, directory>>

\* the custom branch rejects the declared amounts (lines 98-106)
AddExpenseMismatch(c, amount, selectedMembers, declared, fp) ==
    /\ session[c].pc = "idle"
    /\ InGroupView(c)
    /\ canSubmit(selectedMembers)
    /\ amount > 0
    /\ SplitMismatch(SumSeq(declared), amount, fp)
    /\ Fail(c, "add_custom", "split_mismatch", 0)
    /\ UNCHANGED <<expenses, expense_splits, group_members, nextId, login, directory>>

\* the insert into expenses (lines 115-130), with the splits computed before
\* it; ok = FALSE is the call returning expenseError
InsertExpense(c, op, amount, paidBy, splits, ok) ==
    LET row == [id |-> nextId, group_id |-> selectedGroup[c], paid_by |-> paidBy, amount |-> amount]
    IN  IF ok /\ ExpensesInsertPolicy(login[c], row)
        THEN /\ expenses' = expenses \cup {row}
             /\ nextId' = nextId + 1
             /\ session' = [session EXCEPT ![c] =
                    [pc |-> op, expense |-> session[c].expense,
                     id |-> nextId, amount |-> amount, rows |-> splits, pre |-> Database]]
             /\ UNCHANGED <<expense_splits, group_members, login, directory, last>>
        ELSE /\ Fail(c, op, "error", 0)
             /\ UNCHANGED <<expenses, expense_splits, group_members, nextId, login, directory>>

\* the equal branch without the amount check of lines 72-80
AddExpenseEqualUnvalidated(c, amount, paidBy, selectedMembers, ok) ==
    /\ session[c].pc = "idle"
    /\ InGroupView(c)
    /\ canSubmit(selectedMembers)
    /\ nextId <= MaxExpenses
    /\ \E splitAmount \in EqualSplitAmounts(amount, Len(selectedMembers)) :
          InsertExpense(c, "add_equal", amount, paidBy, EqualSplits(selectedMembers, splitAmount), ok)

AddExpenseEqual(c, amount, paidBy, selectedMembers, ok) ==
    /\ session[c].pc = "idle"
    /\ InGroupView(c)
    /\ canSubmit(selectedMembers)
    /\ nextId <= MaxExpenses
    /\ amount > 0
    /\ \E splitAmount \in EqualSplitAmounts(amount, Len(selectedMembers)) :
          InsertExpense(c, "add_equal", amount, paidBy, EqualSplits(selectedMembers, splitAmount), ok)

AddExpenseCustom(c, amount, paidBy, selectedMembers, declared, fp, ok) ==
    /\ session[c].pc = "idle"
    /\ InGroupView(c)
    /\ canSubmit(selectedMembers)
    /\ nextId <= MaxExpenses
    /\ amount > 0
    /\ ~SplitMismatch(SumSeq(declared), amount, fp)
    /\ InsertExpense(c, "add_custom", amount, paidBy, CustomSplits(selectedMembers, declared), ok)

\* the insert into expense_splits (lines 133-141): one statement, all rows or
\* none; ok = FALSE is the call returning splitsError
AddExpenseInsertSplits(c, ok) ==
    /\ session[c].pc \in {"add_equal", "add_custom"}
    /\ LET id == session[c].id
           rows == [i \in DOMAIN session[c].rows |->
                      [expense_id |-> id,
                       user_id |-> session[c].rows[i].user_id,
                       amount |-> session[c].rows[i].amount]]
       IN  IF /\ ok
              /\ ExpenseStored(id)
              /\ \A i \in DOMAIN rows : SplitsInsertPolicy(login[c], rows[i])
           THEN /\ expense_splits' = expense_splits \o rows
                /\ Finish(c, session[c].pc, "ok", id)
           ELSE /\ expense_splits' = expense_splits
                /\ Fail(c, session[c].pc, "error", id)
    /\ UNCHANGED <<expenses, group_members, nextId, login, directory>>

\* ------------------------------------------------ GroupView.fetchExpenses
\* The client loads the card of expense id: the row and its splits as they
\* are stored now.  The card stays as loaded until the client loads again.
CardOf(id) ==
    LET e == ExpenseRow(id)
        rows == SplitsOf(id)
    IN  [id |-> id, amount |-> e.amount, paid_by |-> e.paid_by,
         splits |-> [i \in DOMAIN rows |-> [user_id |-> rows[i].user_id, amount |-> rows[i].amount]]]

FetchExpenses(c, id) ==
    /\ session[c].pc = "idle"
    /\ ExpenseStored(id)
    /\ ExpenseRow(id).group_id = selectedGroup[c]
    /\ IsMember(ExpenseRow(id).group_id, login[c])
    /\ session[c].expense # CardOf(id)
    /\ session' = [session EXCEPT ![c].expense = CardOf(id)]
    /\ UNCHANGED <<expenses, expense_splits, group_members, nextId, login, directory, last>>

\* --------------------------------------------------------- ExpenseCard
\* canEdit with the comparison lost: the buttons are rendered for everyone
canEditAnyone(uid, expense) == TRUE

\* const canEdit = user?.id === expense.paid_by (line 68)
canEdit(uid, expense) == uid = expense.paid_by

\* "Users can update their own expenses" / "Users can delete their own expenses"
ExpensesOwnerPolicy(uid, row) == uid = row.paid_by

\* expense_splits has row level security enabled and policies FOR SELECT and
\* FOR INSERT only: no row is visible to a DELETE, whoever issues it
SplitsDeletePolicy(uid, row) == FALSE

\* the Edit and Delete buttons are rendered under canEdit only (lines 100-120):
\* for anyone else there is nothing to click
NoControls(c, op) ==
    /\ session[c].pc = "idle"
    /\ session[c].expense # NoExpense
    /\ ~canEdit(login[c], session[c].expense)
    /\ Toast(c, op, "no_controls", session[c].expense.id)
    /\ UNCHANGED <<expenses, expense_splits, group_members, nextId, login, directory, session>>

\* handleDelete offered to everyone and run past the DELETE policy
handleDeleteUnchecked(c, ok) ==
    /\ session[c].pc = "idle"
    /\ session[c].expense # NoExpense
    /\ LET id == session[c].expense.id
           gone == {e \in expenses : e.id = id}
       IN  IF ok
           THEN /\ expenses' = expenses \ gone
                /\ expense_splits' = SelectSeq(expense_splits,
                       LAMBDA r : \A e \in gone : r.expense_id # e.id)
                /\ Finish(c, "delete", "ok", id)
           ELSE /\ UNCHANGED <<expenses, expense_splits>>
                /\ Fail(c, "delete", "error", id)
    /\ UNCHANGED <<group_members, nextId, login, directory>>

\* handleDelete against an expense_splits table without ON DELETE CASCADE
\* checking: the expense row goes and its split rows stay
handleDeleteKeepsSplits(c, ok) ==
    /\ session[c].pc = "idle"
    /\ session[c].expense # NoExpense
    /\ canEdit(login[c], session[c].expense)
    /\ LET id == session[c].expense.id
           gone == {e \in expenses : e.id = id /\ ExpensesOwnerPolicy(login[c], e)}
       IN  IF ok
           THEN /\ expenses' = expenses \ gone
                /\ UNCHANGED expense_splits
                /\ Finish(c, "delete", "ok", id)
           ELSE /\ UNCHANGED <<expenses, expense_splits>>
                /\ Fail(c, "delete", "error", id)
    /\ UNCHANGED <<group_members, nextId, login, directory>>

\* handleDelete (lines 46-66): one DELETE on expenses; the splits go with the
\* row by ON DELETE CASCADE.  A DELETE that matches no row it may see is no error.
handleDelete(c, ok) ==
    /\ session[c].pc = "idle"
    /\ session[c].expense # NoExpense
    /\ canEdit(login[c], session[c].expense)
    /\ LET id == session[c].expense.id
           gone == {e \in expenses : e.id = id /\ ExpensesOwnerPolicy(login[c], e)}
       IN  IF ok
           THEN /\ expenses' = expenses \ gone
                /\ expense_splits' = SelectSeq(expense_splits,
                       LAMBDA r : \A e \in gone : r.expense_id # e.id)
                /\ Finish(c, "delete", "ok", id)
           ELSE /\ UNCHANGED <<expenses, expense_splits>>
                /\ Fail(c, "delete", "error", id)
    /\ UNCHANGED <<group_members, nextId, login, directory>>

\* ------------------------------------------ EditExpenseDialog.handleSubmit
\* an UPDATE that stores the row again when there is none
UpdateAmountUpsert(uid, id, amount) ==
    IF ExpenseStored(id)
    THEN {IF e.id = id /\ ExpensesOwnerPolicy(uid, e) THEN [e EXCEPT !.amount = amount] ELSE e :
             e \in expenses}
    ELSE expenses \cup {[id |-> id, group_id |-> TheGroup, paid_by |-> uid, amount |-> amount]}

\* the UPDATE of the expense row (both variants): it changes the rows with
\* this id that the UPDATE policy lets the caller see, and is no error when
\* there is none
UpdateAmount(uid, id, amount) ==
    {IF e.id = id /\ ExpensesOwnerPolicy(uid, e) THEN [e EXCEPT !.amount = amount] ELSE e :
        e \in expenses}

EditInvalid(c, amount) ==
    /\ session[c].pc = "idle"
    /\ session[c].expense # NoExpense
    /\ canEdit(login[c], session[c].expense)
    /\ amount <= 0
    /\ Toast(c, "edit", "invalid_amount", session[c].expense.id)
    /\ UNCHANGED <<expenses, expense_splits, group_members, nextId, login, directory, session>>

\* the amount-only edit without the amount check of lines 306-314
EditAmountOnlyUnvalidated(c, amount, ok) ==
    /\ session[c].pc = "idle"
    /\ session[c].expense # NoExpense
    /\ canEdit(login[c], session[c].expense)
    /\ LET id == session[c].expense.id
       IN  IF ok
           THEN /\ expenses' = UpdateAmount(login[c], id, amount)
                /\ Finish(c, "edit_only", "ok", id)
           ELSE /\ UNCHANGED expenses
                /\ Fail(c, "edit_only", "error", id)
    /\ UNCHANGED <<expense_splits, group_members, nextId, login, directory>>

\* the variant that writes the expense row only (dashboard.tsx lines 298-340)
EditAmountOnly(c, amount, ok) ==
    /\ session[c].pc = "idle"
    /\ session[c].expense # NoExpense
    /\ canEdit(login[c], session[c].expense)
    /\ amount > 0
    /\ LET id == session[c].expense.id
       IN  IF ok
           THEN /\ expenses' = UpdateAmount(login[c], id, amount)
                /\ Finish(c, "edit_only", "ok", id)
           ELSE /\ UNCHANGED expenses
                /\ Fail(c, "edit_only", "error", id)
    /\ UNCHANGED <<expense_splits, group_members, nextId, login, directory>>

\* split.amount * ratio, ratio = expenseAmount / expense.amount (lines 509-515):
\* the products a DECIMAL(10,2) column may store, one per split of the card;
\* equal split amounts give equal products
ScaledAmounts(card, amount) ==
    LET olds == {card.splits[i].amount : i \in DOMAIN card.splits}
        news == UNION {Round2(a * amount, card.amount, FALSE) : a \in olds}
    IN  {[i \in DOMAIN card.splits |-> f[card.splits[i].amount]] :
            f \in {g \in [olds -> news] :
                     \A a \in olds : g[a] \in Round2(a * amount, card.amount, FALSE)}}

\* the rescaling edit without the test expenseAmount !== expense.amount
EditSubmitAlwaysRescales(c, amount, ok) ==
    /\ session[c].pc = "idle"
    /\ session[c].expense # NoExpense
    /\ canEdit(login[c], session[c].expense)
    /\ amount > 0
    /\ LET card == session[c].expense
       IN  IF ~ok
           THEN /\ UNCHANGED expenses
                /\ Fail(c, "edit", "error", card.id)
           ELSE /\ expenses' = UpdateAmount(login[c], card.id, amount)
                /\ \E scaled \in ScaledAmounts(card, amount) :
                      session' = [session EXCEPT ![c] =
                         [pc |-> "edit_delete", expense |-> card, id |-> card.id,
                          amount |-> amount, pre |-> Database,
                          rows |-> [i \in DOMAIN card.splits |->
                                      [user_id |-> card.splits[i].user_id,
                                       amount |-> scaled[i]]]]]
                /\ UNCHANGED last
    /\ UNCHANGED <<expense_splits, group_members, nextId, login, directory>>

\* the variant that rescales the splits (dashboard.tsx lines 476-539), first
\* call: UPDATE expenses
EditSubmit(c, amount, ok) ==
    /\ session[c].pc = "idle"
    /\ session[c].expense # NoExpense
    /\ canEdit(login[c], session[c].expense)
    /\ amount > 0
    /\ LET card == session[c].expense
       IN  IF ~ok
           THEN /\ UNCHANGED expenses
                /\ Fail(c, "edit", "error", card.id)
           ELSE /\ expenses' = UpdateAmount(login[c], card.id, amount)
                /\ IF amount # card.amount
                   THEN /\ \E scaled \in ScaledAmounts(card, amount) :
                              session' = [session EXCEPT ![c] =
                                 [pc |-> "edit_delete", expense |-> card, id |-> card.id,
                                  amount |-> amount, pre |-> Database,
                                  rows |-> [i \in DOMAIN card.splits |->
                                              [user_id |-> card.splits[i].user_id,
                                               amount |-> scaled[i]]]]]
                        /\ UNCHANGED last
                   ELSE Finish(c, "edit", "ok", card.id)
    /\ UNCHANGED <<expense_splits, group_members, nextId, login, directory>>

\* second call: DELETE FROM expense_splits WHERE expense_id = expense.id
EditDeleteSplits(c, ok) ==
    /\ session[c].pc = "edit_delete"
    /\ LET id == session[c].id
       IN  IF ok
           THEN /\ expense_splits' = SelectSeq(expense_splits,
                       LAMBDA r : ~(r.expense_id = id /\ SplitsDeletePolicy(login[c], r)))
                /\ session' = [session EXCEPT ![c].pc = "edit_insert"]
                /\ UNCHANGED last
           ELSE /\ UNCHANGED expense_splits
                /\ Fail(c, "edit", "error", id)
    /\ UNCHANGED <<expenses, group_members, nextId, login, directory>>

\* the INSERT without the foreign key on expense_id and without the policy
EditInsertSplitsNoForeignKey(c, ok) ==
    /\ session[c].pc = "edit_insert"
    /\ LET id == session[c].id
           rows == [i \in DOMAIN session[c].rows |->
                      [expense_id |-> id,
                       user_id |-> session[c].rows[i].user_id,
                       amount |-> session[c].rows[i].amount]]
       IN  IF ok
           THEN /\ Len(expense_splits) + Len(rows) <= MaxSplitRows
                /\ expense_splits' = expense_splits \o rows
                /\ Finish(c, "edit", "ok", id)
           ELSE /\ UNCHANGED expense_splits
                /\ Fail(c, "edit", "error", id)
    /\ UNCHANGED <<expenses, group_members, nextId, login, directory>>

\* third call: INSERT INTO expense_splits, one statement
EditInsertSplits(c, ok) ==
    /\ session[c].pc = "edit_insert"
    /\ LET id == session[c].id
           rows == [i \in DOMAIN session[c].rows |->
                      [expense_id |-> id,
                       user_id |-> session[c].rows[i].user_id,
                       amount |-> session[c].rows[i].amount]]
       IN  IF /\ ok
              /\ ExpenseStored(id)
              /\ \A i \in DOMAIN rows : SplitsInsertPolicy(login[c], rows[i])
           THEN /\ Len(expense_splits) + Len(rows) <= MaxSplitRows
                /\ expense_splits' = expense_splits \o rows
                /\ Finish(c, "edit", "ok", id)
           ELSE /\ UNCHANGED expense_splits
                /\ Fail(c, "edit", "error", id)
    /\ UNCHANGED <<expenses, group_members, nextId, login, directory>>

\* GroupView's onBack, setSelectedGroup(null): the view is unmounted and what
\* it had loaded is gone
onBack(c) ==
    /\ session[c].pc = "idle"
    /\ dialog[c].pc = "idle"
    /\ InGroupView(c)
    /\ session' = [session EXCEPT ![c] = Idle]
    /\ selectedGroup' = [selectedGroup EXCEPT ![c] = NoGroup]
    /\ shown' = [shown EXCEPT ![c].members = {}]
    /\ UNCHANGED <<expenses, expense_splits, group_members, nextId, login, last, users, groups,
                   dialog>>

\* a group card of the dashboard is clicked, setSelectedGroup(group.id): the
\* dashboard lists the groups the user is a member of
selectGroup(c, g) ==
    /\ session[c].pc = "idle"
    /\ dialog[c].pc = "idle"
    /\ ~InGroupView(c)
    /\ \E r \in groups : r.id = g
    /\ IsMember(g, login[c])
    /\ selectedGroup' = [selectedGroup EXCEPT ![c] = g]
    /\ UNCHANGED <<expenses, expense_splits, group_members, nextId, login, session, last,
                   users, groups, shown, dialog>>

ExpenseIds == 1..MaxExpenses

\* ------------------------------------------------------- specifications
\* nobody else has the group open
Alone(c) == \A d \in Clients \ {c} : session[d] = Idle

\* one representative of the participant lists a rejected form is sent with
Rejected(c) == {<<login[c]>>}

\* The clients use the application one at a time, with every input the
\* dialogs take and every call free to fail.
Next ==
    \E c \in Clients :
       \/ /\ Alone(c)
          /\ session[c].pc = "idle"
          /\ \E amount \in AmountInputs : AddExpenseInvalid(c, amount)
       \/ /\ Alone(c)
          /\ session[c].pc = "idle"
          /\ \E amount \in AmountInputs, selectedMembers \in Rejected(c), fp \in BOOLEAN :
                \E declared \in Declared[Len(selectedMembers)] :
                   AddExpenseMismatch(c, amount, selectedMembers, declared, fp)
       \/ /\ Alone(c)
          /\ session[c].pc = "idle"
          /\ nextId <= MaxExpenses
          /\ \E amount \in AmountInputs, paidBy \in Users, selectedMembers \in Selections :
                AddExpenseEqual(c, amount, paidBy, selectedMembers, TRUE)
       \/ /\ Alone(c)
          /\ session[c].pc = "idle"
          /\ nextId <= MaxExpenses
          /\ \E amount \in AmountInputs, paidBy \in Users, selectedMembers \in {MemberList} :
                AddExpenseEqual(c, amount, paidBy, selectedMembers, FALSE)
       \/ /\ Alone(c)
          /\ session[c].pc = "idle"
          /\ nextId <= MaxExpenses
          /\ \E amount \in AmountInputs, paidBy \in Users, selectedMembers \in Selections :
                \E declared \in Declared[Len(selectedMembers)] :
                   AddExpenseCustom(c, amount, paidBy, selectedMembers, declared, FALSE, TRUE)
       \/ Alone(c) /\ \E ok \in BOOLEAN : AddExpenseInsertSplits(c, ok)
       \/ Alone(c) /\ \E id \in ExpenseIds : FetchExpenses(c, id)
       \/ Alone(c) /\ session[c].expense # NoExpense /\ onBack(c)
       \/ Alone(c) /\ \E g \in GroupIds : selectGroup(c, g)
       \/ Alone(c) /\ \E op \in {"edit", "delete"} : NoControls(c, op)
       \/ Alone(c) /\ \E ok \in BOOLEAN : handleDelete(c, ok)
       \/ Alone(c) /\ \E amount \in AmountInputs : EditInvalid(c, amount)
       \/ Alone(c) /\ \E amount \in AmountInputs, ok \in BOOLEAN : EditAmountOnly(c, amount, ok)
       \/ Alone(c) /\ \E amount \in AmountInputs, ok \in BOOLEAN : EditSubmit(c, amount, ok)
       \/ Alone(c) /\ \E ok \in BOOLEAN : EditDeleteSplits(c, ok)
       \/ Alone(c) /\ \E ok \in BOOLEAN : EditInsertSplits(c, ok)

Spec == Init /\ [][Next]_vars

\* The clients run side by side, their calls interleaved in every order; the
\* expenses are split equally among all members.
NextConcurrent ==
    \E c \in Clients :
       \/ /\ session[c].pc = "idle"
          /\ nextId <= MaxExpenses
          /\ \E amount \in Amounts, paidBy \in Users :
                AddExpenseEqual(c, amount, paidBy, MemberList, TRUE)
       \/ \E ok \in BOOLEAN : AddExpenseInsertSplits(c, ok)
       \/ \E id \in ExpenseIds : FetchExpenses(c, id)
       \/ onBack(c)
       \/ \E g \in GroupIds : selectGroup(c, g)
       \/ handleDelete(c, TRUE)
       \/ \E amount \in Amounts : EditAmountOnly(c, amount, TRUE)
       \/ \E amount \in Amounts : EditSubmit(c, amount, TRUE)
       \/ EditDeleteSplits(c, TRUE)
       \/ \E ok \in BOOLEAN : EditInsertSplits(c, ok)

SpecConcurrent == Init /\ [][NextConcurrent]_vars

\* ------------------------------------------------- groups and memberships
\* The policies of users, groups and group_members, read to the letter, refuse
\* what these dialogs do (the SELECT policy of group_members queries
\* group_members; users has no INSERT policy for another person's row).  The
\* calls are modelled as the dialogs expect them to behave: a write is applied
\* when the table's constraints allow it, or fails (ok = FALSE); a read
\* returns the committed rows.

\* the toast of a group or member dialog
Notify(c, op, result, id) ==
    last' = [client |-> c, op |-> op, result |-> result, id |-> id, pre |-> Database]

\* group_members without UNIQUE(group_id, user_id)
MembersUniqueDropped(g, u) == TRUE

\* UNIQUE(group_id, user_id)
MembersUnique(g, u) == ~IsMember(g, u)

\* users without UNIQUE on email
UsersEmailUniqueDropped(email) == TRUE

\* users.email UNIQUE
UsersEmailUnique(email) == \A u \in users : u.email # email

\* insert into group_members, applied or refused by the constraint
InsertMember(g, u, ok) ==
    IF ok /\ MembersUnique(g, u)
    THEN group_members' = group_members \cup
            {[id |-> MemberId(g, u, Cardinality({m \in group_members :
                                                    m.group_id = g /\ m.user_id = u})),
              group_id |-> g, user_id |-> u]}
    ELSE UNCHANGED group_members

\* CreateGroupDialog.handleSubmit, first call: insert into groups
CreateGroupInsert(c, ok) ==
    /\ session[c].pc = "idle"
    /\ dialog[c].pc = "idle"
    /\ ~InGroupView(c)
    /\ Cardinality(groups) < MaxGroups
    /\ IF ok
       THEN LET id == Cardinality(groups) + 1
            IN  /\ groups' = groups \cup {[id |-> id, created_by |-> login[c]]}
                /\ dialog' = [dialog EXCEPT ![c] =
                       [NoDialog EXCEPT !.pc = "create_member", !.groupId = id]]
                /\ UNCHANGED last
       ELSE /\ Notify(c, "create_group", "error", NoGroup)
            /\ UNCHANGED <<groups, dialog>>
    /\ UNCHANGED <<expenses, expense_splits, group_members, nextId, login, session, users,
                   selectedGroup, shown>>

\* CreateGroupDialog.handleSubmit, second call: the creator's membership
CreateGroupEnroll(c, ok) ==
    /\ dialog[c].pc = "create_member"
    /\ InsertMember(dialog[c].groupId, login[c], ok)
    /\ Notify(c, "create_group",
              IF ok /\ MembersUnique(dialog[c].groupId, login[c]) THEN "ok" ELSE "error",
              dialog[c].groupId)
    /\ dialog' = [dialog EXCEPT ![c] = NoDialog]
    /\ UNCHANGED <<expenses, expense_splits, nextId, login, session, users, groups,
                   selectedGroup, shown>>

\* AddMemberDialog.handleSubmit, the lookup by email (lines 40-67): PGRST116,
\* no row, leads to the insert into users
AddMemberLookup(c, email) ==
    /\ session[c].pc = "idle"
    /\ dialog[c].pc = "idle"
    /\ InGroupView(c)
    /\ dialog' = [dialog EXCEPT ![c] =
           IF \E u \in users : u.email = email
           THEN [pc |-> "add_check", groupId |-> selectedGroup[c],
                 userId |-> (CHOOSE u \in users : u.email = email).id, email |-> email]
           ELSE [pc |-> "add_create", groupId |-> selectedGroup[c],
                 userId |-> 0, email |-> email]]
    /\ UNCHANGED <<expenses, expense_splits, group_members, nextId, login, session, last,
                   users, groups, selectedGroup, shown>>

\* "User doesn't exist, create them" (lines 48-62)
AddMemberCreateUser(c, ok) ==
    /\ dialog[c].pc = "add_create"
    /\ IF ok /\ UsersEmailUnique(dialog[c].email)
       THEN LET id == UserId(dialog[c].email,
                            Cardinality({u \in users : u.email = dialog[c].email}))
            IN  /\ users' = users \cup {[id |-> id, email |-> dialog[c].email]}
                /\ dialog' = [dialog EXCEPT ![c].pc = "add_check", ![c].userId = id]
                /\ UNCHANGED last
       ELSE /\ Notify(c, "add_member", "error", dialog[c].groupId)
            /\ dialog' = [dialog EXCEPT ![c] = NoDialog]
            /\ UNCHANGED users
    /\ UNCHANGED <<expenses, expense_splits, group_members, nextId, login, session, groups,
                   selectedGroup, shown>>

\* "Check if user is already a member" (lines 69-85)
AddMemberCheck(c) ==
    /\ dialog[c].pc = "add_check"
    /\ IF IsMember(dialog[c].groupId, dialog[c].userId)
       THEN /\ Notify(c, "add_member", "already_member", dialog[c].groupId)
            /\ dialog' = [dialog EXCEPT ![c] = NoDialog]
       ELSE /\ dialog' = [dialog EXCEPT ![c].pc = "add_insert"]
            /\ UNCHANGED last
    /\ UNCHANGED <<expenses, expense_splits, group_members, nextId, login, session, users,
                   groups, selectedGroup, shown>>

\* "Add user to group" (lines 87-98)
AddMemberInsert(c, ok) ==
    /\ dialog[c].pc = "add_insert"
    /\ InsertMember(dialog[c].groupId, dialog[c].userId, ok)
    /\ Notify(c, "add_member",
              IF ok /\ MembersUnique(dialog[c].groupId, dialog[c].userId) THEN "ok" ELSE "error",
              dialog[c].groupId)
    /\ dialog' = [dialog EXCEPT ![c] = NoDialog]
    /\ UNCHANGED <<expenses, expense_splits, nextId, login, session, users, groups,
                   selectedGroup, shown>>

\* ----------------------------------------------------- balances on screen
\* the members GroupView has fetched (group_members of the group, joined
\* with users), handed to AddExpenseDialog as its members prop
MembersOf(g) == {u.id : u \in {x \in users : IsMember(g, x.id)}}

\* a payer and participants picked among every user
MemberChoicesAnyone(c) == {u.id : u \in users}

\* AddExpenseDialog's choices of payer and participants: its members prop
MemberChoices(c) == MembersOf(selectedGroup[c])

RECURSIVE SeqOf(_)
SeqOf(S) ==
    IF S = {} THEN <<>>
    ELSE LET m == CHOOSE x \in S : \A y \in S : x <= y
         IN  <<m>> \o SeqOf(S \ {m})

\* GroupView.fetchGroupData, client side: totalPaid and totalOwed of a member
totalPaid(userId, groupId) ==
    SumAmounts({e \in expenses : e.group_id = groupId /\ e.paid_by = userId})

totalOwed(userId, groupId) ==
    LET ids == {e.id : e \in {x \in expenses : x.group_id = groupId}}
    IN  SumSeq(SplitAmounts(SelectSeq(expense_splits,
            LAMBDA r : r.user_id = userId /\ r.expense_id \in ids)))

\* GroupView.fetchGroupData: the balance of every member, computed in the client
fetchGroupData(c) ==
    /\ session[c].pc = "idle"
    /\ dialog[c].pc = "idle"
    /\ InGroupView(c)
    /\ shown' = [shown EXCEPT ![c].members =
           {[id |-> u, balance |-> totalPaid(u, selectedGroup[c]) - totalOwed(u, selectedGroup[c])] :
               u \in MembersOf(selectedGroup[c])}]
    /\ UNCHANGED <<expenses, expense_splits, group_members, nextId, login, session, last,
                   users, groups, selectedGroup, dialog>>

\* GroupView.fetchGroupData with supabase.rpc("calculate_user_balance"),
\* balance: balanceData || 0
fetchGroupDataRpc(c) ==
    /\ session[c].pc = "idle"
    /\ dialog[c].pc = "idle"
    /\ InGroupView(c)
    /\ shown' = [shown EXCEPT ![c].members =
           {[id |-> u, balance |-> calculate_user_balance(u, selectedGroup[c])] :
               u \in MembersOf(selectedGroup[c])}]
    /\ UNCHANGED <<expenses, expense_splits, group_members, nextId, login, session, last,
                   users, groups, selectedGroup, dialog>>

\* Dashboard.fetchGroups: group_members of the user, joined with groups
MyGroups(uid) == {m.group_id : m \in {x \in group_members : x.user_id = uid}}

\* youPaid alone
yourBalancePaidOnly(uid, groupId) ==
    SumAmounts({e \in expenses : e.group_id = groupId /\ e.paid_by = uid})

\* yourBalance = youPaid - youOwe; the splits are joined with expenses!inner
\* and filtered on expenses.group_id
yourBalance(uid, groupId) ==
    LET youOwe == SumSeq(SplitAmounts(SelectSeq(expense_splits,
                      LAMBDA r : /\ r.user_id = uid
                                 /\ \E e \in expenses : e.id = r.expense_id /\ e.group_id = groupId)))
        youPaid == SumAmounts({e \in expenses : e.group_id = groupId /\ e.paid_by = uid})
    IN  youPaid - youOwe

\* Dashboard.fetchGroups, balances computed in the client
fetchGroups(c) ==
    /\ session[c].pc = "idle"
    /\ dialog[c].pc = "idle"
    /\ shown' = [shown EXCEPT ![c].groups =
           {[id |-> g, balance |-> yourBalance(login[c], g)] : g \in MyGroups(login[c])}]
    /\ UNCHANGED <<expenses, expense_splits, group_members, nextId, login, session, last,
                   users, groups, selectedGroup, dialog>>

\* Dashboard.fetchGroups with supabase.rpc, user_balance: balanceData || 0
fetchGroupsRpc(c) ==
    /\ session[c].pc = "idle"
    /\ dialog[c].pc = "idle"
    /\ shown' = [shown EXCEPT ![c].groups =
           {[id |-> g, balance |-> calculate_user_balance(login[c], g)] : g \in MyGroups(login[c])}]
    /\ UNCHANGED <<expenses, expense_splits, group_members, nextId, login, session, last,
                   users, groups, selectedGroup, dialog>>

RECURSIVE SumBalances(_)
SumBalances(rows) ==
    IF rows = {} THEN 0
    ELSE LET r == CHOOSE x \in rows : TRUE
         IN  r.balance + SumBalances(rows \ {r})

\* the "Your Balance" card: groups.reduce((sum, group) => sum + group.your_balance, 0)
totalBalance(c) == SumBalances(shown[c].groups)

\* the addresses typed into the member dialog; the last one has no account
Emails == 1..NumUsers

\* the application before its first group: the users who signed up, no group
InitMembers ==
    /\ expenses = {}
    /\ expense_splits = <<>>
    /\ group_members = {}
    /\ nextId = 1
    /\ login \in Logins
    /\ session = [c \in Clients |-> Idle]
    /\ last = NoResult
    /\ users = {[id |-> UserId(u, 0), email |-> u] : u \in 1..(NumUsers - 1)}
    /\ groups = {}
    /\ selectedGroup = [c \in Clients |-> NoGroup]
    /\ shown = [c \in Clients |-> NoBalances]
    /\ dialog = [c \in Clients |-> NoDialog]

\* who is in which group once the dialogs are done: user 1 has created the
\* groups and is enrolled in each, every other user is in any of them or not
Memberships == {M \in SUBSET (GroupIds \X Users) : \A g \in GroupIds : <<g, 1>> \in M}

\* the application with its groups set up, before the first expense; no code
\* removes a row of users, groups or group_members
InitGroups ==
    /\ expenses = {}
    /\ expense_splits = <<>>
    /\ \E M \in Memberships :
          group_members = {[id |-> MemberId(p[1], p[2], 0), group_id |-> p[1], user_id |-> p[2]] :
                              p \in M}
    /\ nextId = 1
    /\ login \in Logins
    /\ session = [c \in Clients |-> Idle]
    /\ last = NoResult
    /\ users = {[id |-> UserId(u, 0), email |-> u] : u \in Users}
    /\ groups = {[id |-> g, created_by |-> 1] : g \in GroupIds}
    /\ selectedGroup = [c \in Clients |-> NoGroup]
    /\ shown = [c \in Clients |-> NoBalances]
    /\ dialog = [c \in Clients |-> NoDialog]

\* no other client is inside a handler or a dialog
Quiet(c) == \A d \in Clients \ {c} : session[d].pc = "idle" /\ dialog[d].pc = "idle"

\* Expenses are recorded in the groups and balances fetched, one client at a
\* time; an expense is split equally among the boxes left checked.
NextGroups ==
    \E c \in Clients :
       \/ Quiet(c) /\ \E g \in GroupIds : selectGroup(c, g)
       \/ Quiet(c) /\ onBack(c)
       \/ /\ Quiet(c)
          /\ nextId <= MaxExpenses
          /\ \E amount \in {MaxAmount}, paidBy \in MemberChoices(c) :
                \E selectedMembers \in SubSeqs(SeqOf(MemberChoices(c))) :
                   AddExpenseEqual(c, amount, paidBy, selectedMembers, TRUE)
       \/ Quiet(c) /\ AddExpenseInsertSplits(c, TRUE)
       \/ Quiet(c) /\ fetchGroupData(c)
       \/ Quiet(c) /\ fetchGroupDataRpc(c)
       \/ Quiet(c) /\ fetchGroups(c)
       \/ Quiet(c) /\ fetchGroupsRpc(c)

SpecGroups == InitGroups /\ [][NextGroups]_vars

\* The group and member dialogs of all clients, their calls interleaved in
\* every order.
NextMembers ==
    \E c \in Clients :
       \/ \E ok \in BOOLEAN : CreateGroupInsert(c, ok)
       \/ \E ok \in BOOLEAN : CreateGroupEnroll(c, ok)
       \/ \E email \in Emails : AddMemberLookup(c, email)
       \/ \E ok \in BOOLEAN : AddMemberCreateUser(c, ok)
       \/ AddMemberCheck(c)
       \/ \E ok \in BOOLEAN : AddMemberInsert(c, ok)
       \/ \E g \in GroupIds : selectGroup(c, g)
       \/ onBack(c)

SpecMembers == InitMembers /\ [][NextMembers]_vars

\* ------------------------------------------- fetchGroupData, call by call
\* Between the clients' calls the others run.  fetchGroupData lists the
\* members with one query and then, for every member (Promise.all: in any
\* order), asks for the balance: with one rpc, or in the client with a query
\* for the paid expenses, one for the ids of the group's expenses and one for
\* the member's splits.  setMembers follows the last answer.
Reading(c) == shown[c].pending # {}

\* the query on group_members starts the read
fetchMembers(c, how) ==
    /\ session[c].pc = "idle"
    /\ dialog[c].pc = "idle"
    /\ InGroupView(c)
    /\ ~Reading(c)
    /\ MembersOf(selectedGroup[c]) # {}
    /\ shown' = [shown EXCEPT ![c].pending = MembersOf(selectedGroup[c]),
                              ![c].partial = {},
                              ![c].seen = {Database},
                              ![c].how = how,
                              ![c].fold = NoFold]
    /\ UNCHANGED <<expenses, expense_splits, group_members, nextId, login, session, last,
                   users, groups, selectedGroup, dialog>>

\* the balance of member u has arrived; after the last one, setMembers
Answered(c, u, balance) ==
    LET partial == shown[c].partial \cup {[id |-> u, balance |-> balance]}
        pending == shown[c].pending \ {u}
    IN  shown' = [shown EXCEPT
                     ![c].pending = pending,
                     ![c].partial = IF pending = {} THEN {} ELSE partial,
                     ![c].seen = IF pending = {} THEN {} ELSE shown[c].seen \cup {Database},
                     ![c].how = IF pending = {} THEN "none" ELSE shown[c].how,
                     ![c].fold = NoFold,
                     ![c].members = IF pending = {} THEN partial ELSE shown[c].members]

\* supabase.rpc("calculate_user_balance", {p_user_id, p_group_id}): one
\* statement, balance: balanceData || 0
fetchBalanceRpc(c, u) ==
    /\ shown[c].how = "rpc"
    /\ u \in shown[c].pending
    /\ Answered(c, u, calculate_user_balance(u, selectedGroup[c]))
    /\ UNCHANGED <<expenses, expense_splits, group_members, nextId, login, session, last,
                   users, groups, selectedGroup, dialog>>

\* "Amount they paid": expenses of the group with paid_by = userId
fetchPaid(c, u) ==
    /\ shown[c].how = "fold"
    /\ u \in shown[c].pending
    /\ shown[c].fold = NoFold
    /\ shown' = [shown EXCEPT
                    ![c].fold = [user |-> u, totalPaid |-> totalPaid(u, selectedGroup[c]),
                                 ids |-> {}, pc |-> "ids"],
                    ![c].seen = shown[c].seen \cup {Database}]
    /\ UNCHANGED <<expenses, expense_splits, group_members, nextId, login, session, last,
                   users, groups, selectedGroup, dialog>>

\* the ids of the group's expenses, for .in("expense_id", ...)
fetchIds(c) ==
    /\ shown[c].fold.pc = "ids"
    /\ shown' = [shown EXCEPT
                    ![c].fold.ids = {e.id : e \in {x \in expenses : x.group_id = selectedGroup[c]}},
                    ![c].fold.pc = "splits",
                    ![c].seen = shown[c].seen \cup {Database}]
    /\ UNCHANGED <<expenses, expense_splits, group_members, nextId, login, session, last,
                   users, groups, selectedGroup, dialog>>

\* "Amount they owe": the member's splits on these ids; balance = totalPaid - totalOwed
fetchSplits(c) ==
    /\ shown[c].fold.pc = "splits"
    /\ LET fold == shown[c].fold
           owed == SumSeq(SplitAmounts(SelectSeq(expense_splits,
                       LAMBDA r : r.user_id = fold.user /\ r.expense_id \in fold.ids)))
       IN  Answered(c, fold.user, fold.totalPaid - owed)
    /\ UNCHANGED <<expenses, expense_splits, group_members, nextId, login, session, last,
                   users, groups, selectedGroup, dialog>>

\* every read in progress has seen the rows as they are now
Observed == \A c \in Clients : Reading(c) => Database \in shown[c].seen

\* the first member of the list whose balance has not arrived
NextInList(c, u) == \A v \in shown[c].pending : u <= v

\* no other client's group view is fetching
OneReader(c) == \A d \in Clients \ {c} : ~Reading(d)

\* A group view fetches its balances call by call, one view at a time and
\* the answers in the order of the member list, while the clients record
\* expenses paid by themselves, lower their amount and delete them, their
\* calls interleaved.  A write waits until the read in progress has seen the
\* rows as they are, so that a read sees every state the tables pass through
\* while it runs.
NextView ==
    \E c \in Clients :
       \/ OneReader(c) /\ \E how \in {"rpc", "fold"} : fetchMembers(c, how)
       \/ \E u \in Users : NextInList(c, u) /\ fetchBalanceRpc(c, u)
       \/ \E u \in Users : NextInList(c, u) /\ fetchPaid(c, u)
       \/ fetchIds(c)
       \/ fetchSplits(c)
       \/ /\ Observed
          /\ nextId <= MaxExpenses
          /\ AddExpenseEqual(c, MaxAmount, login[c], MemberList, TRUE)
       \/ Observed /\ AddExpenseInsertSplits(c, TRUE)
       \/ \E id \in ExpenseIds : FetchExpenses(c, id)
       \/ Observed /\ handleDelete(c, TRUE)
       \/ Observed /\ \E amount \in Amounts \ {MaxAmount} : EditAmountOnly(c, amount, TRUE)

SpecView == Init /\ [][NextView]_vars

\* ------------------------------------------------------------ Scenario A
\* the form of Scenario A: 90.00 paid by user 1 (Alice), the boxes of Alice,
\* Bob and Carol checked (users 1, 2, 3)
ScenarioA == [amount |-> 9000, paidBy |-> 1, selectedMembers |-> <<1, 2, 3>>]

\* An expense of the scenario's amount is recorded with any payer and any
\* boxes checked, every call free to fail, one client at a time, and the
\* group view fetches the balances.
NextScenario ==
    \E c \in Clients :
       \/ /\ Alone(c)
          /\ \E paidBy \in Users, selectedMembers \in Selections, ok \in BOOLEAN :
                AddExpenseEqual(c, ScenarioA.amount, paidBy, selectedMembers, ok)
       \/ Alone(c) /\ \E ok \in BOOLEAN : AddExpenseInsertSplits(c, ok)
       \/ Alone(c) /\ fetchGroupDataRpc(c)

SpecScenario == Init /\ [][NextScenario]_vars

\* --------------------------------------------------------- custom splits
\* the amounts that can be typed for n participants, a minus sign included:
\* the fields are type="number" with no min (lines 287-296)
DeclaredSigned == [n \in 1..NumUsers |-> [1..n -> -1..MaxAmount]]

\* Expenses are recorded with custom splits of any sign, one client at a
\* time.  Every call is free to fail: where expense_splits has CHECK
\* (amount >= 0), the insert of a negative row is a call that fails.
NextCustom ==
    \E c \in Clients :
       \/ /\ Alone(c)
          /\ \E amount \in Amounts, selectedMembers \in Rejected(c), fp \in BOOLEAN :
                \E declared \in DeclaredSigned[Len(selectedMembers)] :
                   AddExpenseMismatch(c, amount, selectedMembers, declared, fp)
       \/ /\ Alone(c)
          /\ \E amount \in Amounts, selectedMembers \in Selections, fp \in BOOLEAN :
                \E declared \in DeclaredSigned[Len(selectedMembers)], ok \in BOOLEAN :
                   AddExpenseCustom(c, amount, login[c], selectedMembers, declared, fp, ok)
       \/ Alone(c) /\ \E ok \in BOOLEAN : AddExpenseInsertSplits(c, ok)
       \/ Alone(c) /\ \E id \in ExpenseIds : FetchExpenses(c, id)
       \/ Alone(c) /\ \E ok \in BOOLEAN : handleDelete(c, ok)

SpecCustom == Init /\ [][NextCustom]_vars

\* ------------------------------------------------- GroupView and its cards
\* The group view of part_004's client (lines 505-770) with one expense
\* stored: recorded by user 1 or 2 for all members in equal parts, and both
\* group views mounted since, their fetchGroupData done.
InitCards ==
    /\ \E amount \in Amounts, paidBy \in {1, 2} :
          \E splitAmount \in EqualSplitAmounts(amount, Len(MemberList)) :
             /\ expenses = {[id |-> 1, group_id |-> TheGroup, paid_by |-> paidBy, amount |-> amount]}
             /\ expense_splits = [i \in DOMAIN MemberList |->
                                    [expense_id |-> 1, user_id |-> MemberList[i],
                                     amount |-> splitAmount]]
             /\ shown = [c \in Clients |->
                           [NoBalances EXCEPT !.members =
                               {[id |-> u,
                                 balance |-> (IF u = paidBy THEN amount ELSE 0) - splitAmount] :
                                   u \in Users}]]
    /\ group_members = {[id |-> MemberId(TheGroup, u, 0), group_id |-> TheGroup, user_id |-> u] :
                            u \in Users}
    /\ nextId = 2
    /\ login \in Logins
    /\ session = [c \in Clients |-> Idle]
    /\ last = NoResult
    /\ users = {[id |-> UserId(u, 0), email |-> u] : u \in Users}
    /\ groups = {[id |-> TheGroup, created_by |-> 1]}
    /\ selectedGroup = [c \in Clients |-> TheGroup]
    /\ dialog = [c \in Clients |-> NoDialog]

\* The payer edits and deletes the expense from its card, one client at a
\* time.  The card's onExpenseUpdated is fetchExpenses (line 744): it loads
\* the cards again and leaves the members as they are.  A view that is left
\* and opened again fetches the members again.
NextCards ==
    \E c \in Clients :
       \/ Alone(c) /\ \E id \in ExpenseIds : FetchExpenses(c, id)
       \/ Alone(c) /\ \E ok \in BOOLEAN : handleDelete(c, ok)
       \/ Alone(c) /\ \E amount \in Amounts, ok \in BOOLEAN : EditSubmit(c, amount, ok)
       \/ Alone(c) /\ \E ok \in BOOLEAN : EditDeleteSplits(c, ok)
       \/ Alone(c) /\ \E ok \in BOOLEAN : EditInsertSplits(c, ok)
       \/ Alone(c) /\ onBack(c)
       \/ Alone(c) /\ selectGroup(c, TheGroup)
       \/ Alone(c) /\ shown[c].members = {} /\ fetchGroupDataRpc(c)

SpecCards == InitCards /\ [][NextCards]_vars

\* ------------------------------------------------ balances as JS numbers
\* The client folds add and subtract the amounts as JavaScript numbers, IEEE
\* 754 doubles; PostgREST sends a DECIMAL(10,2) value as a JSON number, which
\* the client reads as the double nearest to it.  A number is written here as
\* [cents, dev]: the double nearest to cents / 100 plus dev times 2^-59.  The
\* database adds and subtracts DECIMAL values exactly, so what an rpc returns
\* has dev = 0.
Double(cents) == [cents |-> cents, dev |-> 0]

\* sum + amount in doubles, <<cents of sum, dev of sum, cents of amount, dev
\* of the result>>: every case with a dev other than 0 on either side, for
\* the sums of up to MaxSplitRows amounts of up to MaxAmount minor units
DoubleSums ==
    {<<5, 0, 1, 4>>, <<6, 0, 1, -8>>, <<6, 4, 0, 4>>, <<6, 4, 1, 0>>, <<6, 4, 2, 0>>,
     <<7, -8, 0, -8>>, <<7, -8, 1, -8>>, <<7, -8, 2, 0>>, <<7, 0, 2, 8>>, <<8, -8, 0, -8>>,
     <<8, -8, 1, -8>>, <<8, -8, 2, -8>>, <<9, 0, 1, -8>>, <<9, 8, 0, 8>>, <<9, 8, 1, 0>>,
     <<9, 8, 2, 8>>, <<10, 0, 2, 8>>}

\* paid - owed in doubles, <<cents of paid, cents of owed, dev of owed, dev of
\* the result>>: every case with a dev other than 0 on either side, for one
\* amount paid and the sums above
DoubleDifferences ==
    {<<0, 6, 4, -4>>, <<0, 7, -8, 8>>, <<0, 8, -8, 8>>, <<0, 9, -8, 8>>, <<0, 9, 8, -8>>,
     <<0, 10, -8, 8>>, <<0, 11, 8, -8>>, <<0, 12, 8, -8>>, <<1, 3, 0, 2>>, <<1, 6, 0, 4>>,
     <<1, 6, 4, 0>>, <<1, 7, -8, 4>>, <<1, 7, 0, -4>>, <<1, 8, -8, 8>>, <<1, 9, -8, 8>>,
     <<1, 9, 8, -8>>, <<1, 10, -8, 0>>, <<1, 10, 0, -8>>, <<1, 11, 8, -8>>,
     <<1, 12, 8, -8>>, <<2, 3, 0, 1>>, <<2, 5, 0, -2>>, <<2, 6, 0, 4>>, <<2, 6, 4, -4>>,
     <<2, 7, -8, 8>>, <<2, 8, -8, 8>>, <<2, 9, -8, 16>>, <<2, 9, 0, 8>>, <<2, 9, 8, 0>>,
     <<2, 10, -8, 8>>, <<2, 11, 8, -8>>, <<2, 12, 8, 0>>}

\* sum + amount, amount a stored value
DoubleAdd(sum, amount) ==
    LET hits == {t \in DoubleSums : t[1] = sum.cents /\ t[2] = sum.dev /\ t[3] = amount}
    IN  [cents |-> sum.cents + amount,
         dev |-> IF hits = {} THEN 0 ELSE (CHOOSE t \in hits : TRUE)[4]]

\* rows.reduce((sum, row) => sum + row.amount, 0) || 0, in the order of the rows
RECURSIVE DoubleReduce(_, _)
DoubleReduce(sum, amounts) ==
    IF amounts = <<>> THEN sum
    ELSE DoubleReduce(DoubleAdd(sum, Head(amounts)), Tail(amounts))

\* paid - owed
DoubleSubtract(paid, owed) ==
    LET hits == {t \in DoubleDifferences :
                    t[1] = paid.cents /\ t[2] = owed.cents /\ t[3] = owed.dev}
    IN  [cents |-> paid.cents - owed.cents,
         dev |-> IF hits = {} THEN 0 ELSE (CHOOSE t \in hits : TRUE)[4]]

\* the amounts of the expenses in rows, in the order of their ids
PaidAmounts(rows) == [i \in DOMAIN SeqOf({e.id : e \in rows}) |->
                        (CHOOSE e \in rows : e.id = SeqOf({x.id : x \in rows})[i]).amount]

\* GroupView.fetchGroupData, client side: balance = totalPaid - totalOwed
groupViewBalance(userId, groupId) ==
    LET paidExpenses == {e \in expenses : e.group_id = groupId /\ e.paid_by = userId}
        ids == {e.id : e \in {x \in expenses : x.group_id = groupId}}
        splits == SelectSeq(expense_splits,
                            LAMBDA r : r.user_id = userId /\ r.expense_id \in ids)
    IN  DoubleSubtract(DoubleReduce(Double(0), PaidAmounts(paidExpenses)),
                       DoubleReduce(Double(0), SplitAmounts(splits)))

\* Dashboard.fetchGroups, client side: yourBalance = youPaid - youOwe
dashboardBalance(uid, groupId) ==
    LET splits == SelectSeq(expense_splits,
                     LAMBDA r : /\ r.user_id = uid
                                /\ \E e \in expenses : e.id = r.expense_id /\ e.group_id = groupId)
        paidExpenses == {e \in expenses : e.group_id = groupId /\ e.paid_by = uid}
    IN  DoubleSubtract(DoubleReduce(Double(0), PaidAmounts(paidExpenses)),
                       DoubleReduce(Double(0), SplitAmounts(splits)))

\* supabase.rpc("calculate_user_balance"): the DECIMAL the function returns
rpcBalance(p_user_id, p_group_id) == Double(calculate_user_balance(p_user_id, p_group_id))

\* An expense of the smallest amount is recorded by its payer in equal parts,
\* edited and deleted from its card, one client at a time, and the group
\* view and the dashboard fetch the balances in both ways.
NextBalances ==
    \E c \in Clients :
       \/ /\ Alone(c)
          /\ \E selectedMembers \in Selections :
                AddExpenseEqual(c, 1, login[c], selectedMembers, TRUE)
       \/ Alone(c) /\ AddExpenseInsertSplits(c, TRUE)
       \/ Alone(c) /\ \E id \in ExpenseIds : FetchExpenses(c, id)
       \/ Alone(c) /\ \E amount \in Amounts : EditSubmit(c, amount, TRUE)
       \/ Alone(c) /\ EditDeleteSplits(c, TRUE)
       \/ Alone(c) /\ EditInsertSplits(c, TRUE)
       \/ Alone(c) /\ handleDelete(c, TRUE)
       \/ Alone(c) /\ fetchGroupData(c)
       \/ Alone(c) /\ fetchGroupDataRpc(c)
       \/ Alone(c) /\ fetchGroups(c)
       \/ Alone(c) /\ fetchGroupsRpc(c)

SpecBalances == Init /\ [][NextBalances]_vars

\* ---------------------------------------------------------------- claims
\* no handler is between two of its calls
AllIdle == \A c \in Clients : session[c].pc = "idle"

RECURSIVE SumOver(_, _)
SumOver(S, g) ==
    IF S = {} THEN 0
    ELSE LET u == CHOOSE x \in S : TRUE
         IN  calculate_user_balance(u, g) + SumOver(S \ {u}, g)

\* C1: whenever no handler is in progress, the split amounts of every stored
\* expense add up to the expense's amount exactly, in minor units.
C1_SplitsSumToAmount ==
    AllIdle => \A e \in expenses : SplitSum(e.id) = e.amount

\* C2: no state holds an expense without its splits: not between the two
\* inserts of recordExpense, and not after the second insert has failed.
C2_ExpenseNeverWithoutSplits ==
    \A e \in expenses : SplitsOf(e.id) # <<>>

\* C3: after an amount edit has ended successfully, the splits the expense
\* has now add up to the amount it has now.
C3_EditKeepsSum ==
    (/\ AllIdle
     /\ last.op \in {"edit", "edit_only"}
     /\ last.result = "ok"
     /\ ExpenseStored(last.id))
    => SplitSum(last.id) = ExpenseRow(last.id).amount

\* C4: two amount edits of the same expense never interleave their row writes:
\* no client is between the calls of its edit while another client is between
\* the calls of an edit of the same expense, and an edit that is between its
\* calls finds the amount it wrote still stored (so its splits never join the
\* amount of another edit).
C4_EditsDoNotInterleave ==
    /\ \A c, d \in Clients :
          (/\ c # d
           /\ session[c].pc \in {"edit_delete", "edit_insert"}
           /\ session[d].pc \in {"edit_delete", "edit_insert"})
          => session[c].id # session[d].id
    /\ \A c \in Clients :
          (session[c].pc \in {"edit_delete", "edit_insert"} /\ ExpenseStored(session[c].id))
          => ExpenseRow(session[c].id).amount = session[c].amount

\* C5: a handler that ends in an error leaves the expenses and the splits
\* exactly as they were when it started.
C5_AllOrNothing ==
    (AllIdle /\ last.result = "error") => Database = last.pre

\* C6: whenever no handler is in progress, the balances of the members of a
\* group add up to 0.
C6_Conservation ==
    AllIdle =>
       \A g \in {TheGroup} :
          SumOver({u \in Users : IsMember(g, u)}, g) = 0

\* C7: the equal branch gives participant i (in the order given) total div N,
\* plus one minor unit when i <= total mod N.
C7_EqualLargestRemainder ==
    \A c \in Clients :
       session[c].pc = "add_equal" =>
          LET N == Len(session[c].rows)
              total == session[c].amount
          IN  \A i \in 1..N :
                 session[c].rows[i].amount =
                    (total \div N) + (IF i <= total % N THEN 1 ELSE 0)

\* C8: a custom recordExpense goes on to write exactly when the declared
\* amounts add up to the expense amount; a rejected one writes nothing.
C8_CustomExactOnly ==
    /\ \A c \in Clients :
          session[c].pc = "add_custom" =>
             SumSeq(SplitAmounts(session[c].rows)) = session[c].amount
    /\ last.result = "split_mismatch" /\ AllIdle => Database = last.pre

\* what a step changes of a stored expense: its row, or its split rows
RowOrSplitsChange(id) ==
    /\ ExpenseStored(id)
    /\ ExpenseStored(id)'
    /\ \/ ExpenseRow(id)' # ExpenseRow(id)
       \/ SplitsOf(id)' # SplitsOf(id)

\* the client whose handler takes the step
Acts(c) == session'[c] # session[c]

Contribution(e, u) ==
    (IF e.paid_by = u THEN e.amount ELSE 0)
       - SumSeq(SplitAmounts(SelectSeq(SplitsOf(e.id), LAMBDA r : r.user_id = u)))

\* C11: the step that deletes an expense leaves no split row of it, and takes
\* out of every balance exactly what the expense and its splits had put in,
\* whatever edits came in between; with no expense left, every balance is back
\* at 0, its value before the first expense was recorded.
C11_DeleteRoundTrip ==
    [][\A id \in ExpenseIds :
          (ExpenseStored(id) /\ ~ExpenseStored(id)') =>
             /\ SplitsOf(id)' = <<>>
             /\ \A u \in Users :
                   /\ calculate_user_balance(u, ExpenseRow(id).group_id)' =
                         calculate_user_balance(u, ExpenseRow(id).group_id)
                            - Contribution(ExpenseRow(id), u)
                   /\ expenses' = {} => calculate_user_balance(u, ExpenseRow(id).group_id)' = 0]_vars

\* the payer has deleted an expense that had been edited: when the delete
\* started the splits did not add up to the amount, and now nothing is stored
C11_Witness ==
    /\ last.op = "delete"
    /\ last.result = "ok"
    /\ last.pre[1] # {}
    /\ last.pre[2] # <<>>
    /\ \E e \in last.pre[1] : SumSeq(SplitAmounts(last.pre[2])) # e.amount
    /\ expenses = {}
    /\ AllIdle

\* C12: the rows an amount edit computes from a card whose splits add up to
\* its amount are, split by split in stored order, floor(split * new / old) or
\* one minor unit more, and add up to the new amount exactly.
C12_RescaleLargestRemainder ==
    \A c \in Clients :
       LET card == session[c].expense
           new == session[c].amount
           rows == session[c].rows
       IN  (/\ session[c].pc = "edit_delete"
            /\ SumSeq(SplitAmounts(card.splits)) = card.amount)
           => /\ \A i \in DOMAIN rows :
                    rows[i].amount - ((card.splits[i].amount * new) \div card.amount) \in {0, 1}
              /\ SumSeq(SplitAmounts(rows)) = new

\* C13: no step writes an expense row with an amount that is not positive,
\* and the step that answers "Invalid amount", in the add dialog or in the edit
\* dialog, leaves the expenses and the splits as they are.
C13_InvalidAmountRejected ==
    [][/\ \A e \in expenses' \ expenses : e.amount > 0
       /\ (last' # last /\ last'.result = "invalid_amount")
             => UNCHANGED <<expenses, expense_splits>>]_vars

\* the payer's edit of a stored expense was answered "Invalid amount", and the
\* tables are what they were
C13_Witness ==
    /\ last.op = "edit"
    /\ last.result = "invalid_amount"
    /\ ExpenseStored(last.id)
    /\ SplitsOf(last.id) # <<>>
    /\ Database = last.pre

C16_CreatorIsMember ==
    \A g \in groups : IsMember(g.id, g.created_by)

\* no two rows of group_members for one group and user
MembershipUnique ==
    \A m, n \in group_members :
       (m.group_id = n.group_id /\ m.user_id = n.user_id) => m = n

\* the step client c takes next meets a membership of its pair that is stored
MeetsMembership(c) ==
    /\ dialog[c].pc \in {"add_check", "add_insert"}
    /\ IsMember(dialog[c].groupId, dialog[c].userId)
    /\ dialog'[c] # dialog[c]

\* C17 as stated: a membership is unique per (group, user) in every state,
\* under any interleaving of addMember calls, and the call that finds or hits
\* an existing membership ends as "already a member" and adds no row.
C17_AlreadyMemberWhenFoundOrHit ==
    [][/\ MembershipUnique'
       /\ \A c \in Clients :
             MeetsMembership(c) =>
                /\ group_members' = group_members
                /\ dialog'[c].pc = "idle"
                /\ last'.client = c
                /\ last'.result = "already_member"]_vars

\* C17, amended: a membership is unique per (group, user) in every state,
\* under any interleaving of addMember calls; the call whose check finds the
\* membership ends as "already a member", the call whose insert hits it ends
\* with the insert's error, and neither adds a row.
C17_MembershipUnique ==
    [][/\ MembershipUnique'
       /\ \A c \in Clients :
             MeetsMembership(c) =>
                /\ group_members' = group_members
                /\ dialog'[c].pc = "idle"
                /\ last'.client = c
                /\ last'.result = IF dialog[c].pc = "add_check" THEN "already_member"
                                  ELSE "error"]_vars

\* a call has passed its check and another call has stored the pair since
C17_Witness ==
    \E c \in Clients :
       /\ dialog[c].pc = "add_insert"
       /\ IsMember(dialog[c].groupId, dialog[c].userId)

RECURSIVE Paid(_, _, _)
Paid(u, g, ids) ==
    IF ids = {} THEN 0
    ELSE LET id == CHOOSE x \in ids : TRUE
         IN  (IF \E e \in expenses : e.id = id /\ e.group_id = g /\ e.paid_by = u
              THEN ExpenseRow(id).amount ELSE 0) + Paid(u, g, ids \ {id})

\* the amounts of the first n split rows that are user u's, on expenses of group g
RECURSIVE Owed(_, _, _)
Owed(u, g, n) ==
    IF n = 0 THEN 0
    ELSE (IF /\ expense_splits[n].user_id = u
             /\ \E e \in expenses : e.id = expense_splits[n].expense_id /\ e.group_id = g
          THEN expense_splits[n].amount ELSE 0) + Owed(u, g, n - 1)

\* what user u has paid in group g minus what u owes in it, on the rows stored
Balance(u, g) == Paid(u, g, {e.id : e \in expenses}) - Owed(u, g, Len(expense_splits))

RECURSIVE SumOfBalances(_, _)
SumOfBalances(u, G) ==
    IF G = {} THEN 0
    ELSE LET g == CHOOSE x \in G : TRUE
         IN  Balance(u, g) + SumOfBalances(u, G \ {g})

BalanceIn(S, u, g) ==
    SumAmounts({e \in S[1] : e.group_id = g /\ e.paid_by = u})
       - SumSeq(SplitAmounts(SelectSeq(S[2],
            LAMBDA r : /\ r.user_id = u
                       /\ \E e \in S[1] : e.id = r.expense_id /\ e.group_id = g)))

\* the member balances of group g on the tables S
BalancesIn(S, g) == {[id |-> u, balance |-> BalanceIn(S, u, g)] : u \in MembersOf(g)}

\* C21: the member balances a read of the group returns are the balances of
\* one state the tables were in while the read ran, whatever recordExpense,
\* amount edit or deleteExpense ran beside it: never balances taken partly
\* before and partly after a write.
C21_ReadsOneSnapshot ==
    [][\A c \in Clients :
          (Reading(c) /\ ~Reading(c)') =>
             \E S \in shown[c].seen \cup {Database} :
                shown'[c].members = BalancesIn(S, selectedGroup[c])]_vars

\* the recordExpense of Scenario A has succeeded: expense id is stored as the
\* form had it, it is the only expense, and the last handler to finish
\* reported its success
ScenarioARecorded(id) ==
    /\ last.op = "add_equal" /\ last.result = "ok" /\ last.id = id
    /\ expenses = {[id |-> id, group_id |-> TheGroup, paid_by |-> ScenarioA.paidBy,
                    amount |-> ScenarioA.amount]}
    /\ [i \in DOMAIN SplitsOf(id) |-> SplitsOf(id)[i].user_id] = ScenarioA.selectedMembers

\* C22: Scenario A.  In a group with Alice, Bob and Carol and no other
\* expense, after a successful recordExpense of 9000 minor units paid by Alice
\* and split equally among the three, the stored splits are 3000 each and the
\* balances are Alice +6000, Bob -3000, Carol -3000, as calculate_user_balance
\* returns them.
C22_ScenarioA ==
    \A id \in ExpenseIds :
       ScenarioARecorded(id) =>
          /\ SplitAmounts(SplitsOf(id)) = <<3000, 3000, 3000>>
          /\ calculate_user_balance(1, TheGroup) = 6000
          /\ calculate_user_balance(2, TheGroup) = -3000
          /\ calculate_user_balance(3, TheGroup) = -3000

\* Scenario A has been recorded and a group view has fetched the balances
C22_Witness ==
    \E id \in ExpenseIds, c \in Clients :
       /\ ScenarioARecorded(id)
       /\ shown[c].members = {[id |-> 1, balance |-> 6000], [id |-> 2, balance |-> -3000],
                              [id |-> 3, balance |-> -3000]}

\* expense id has been stored and deleted: ids are handed out in order and
\* only a delete takes a row away
Deleted(id) == id < nextId /\ ~ExpenseStored(id)

\* C23: deletion is terminal.  Once an expense has been deleted, neither its
\* row nor a split row of it is stored, and no step of any handler, an edit
\* sent from a card loaded before the delete included, stores one again.
C23_DeletionIsTerminal ==
    [][\A id \in ExpenseIds :
          Deleted(id) =>
             /\ SplitsOf(id) = <<>>
             /\ ~ExpenseStored(id)'
             /\ SplitsOf(id)' = <<>>]_vars

\* an amount edit sent from a card of an expense that was already deleted
\* when the edit began has run to its end, and nothing of the expense is stored
C23_Witness ==
    /\ last.op = "edit"
    /\ last.id \in ExpenseIds
    /\ Deleted(last.id)
    /\ \A e \in last.pre[1] : e.id # last.id
    /\ AllIdle

\* the form client c has sent declares a negative amount
DeclaresNegative(c) ==
    /\ session[c].pc = "add_custom"
    /\ \E i \in DOMAIN session[c].rows : session[c].rows[i].amount < 0

\* C24: every stored split has an amount of 0 or more, and a recordExpense
\* with custom splits that declares a negative amount ends with neither the
\* expense nor a split of it stored.
C24_NoNegativeSplit ==
    [][/\ \A i \in DOMAIN expense_splits' : expense_splits'[i].amount >= 0
       /\ \A c \in Clients :
             (DeclaresNegative(c) /\ session'[c].pc = "idle") =>
                /\ ~ExpenseStored(session[c].id)'
                /\ SplitsOf(session[c].id)' = <<>>]_vars

\* the users with a split row of expense id among rows
Participants(rows, id) == {rows[i].user_id : i \in {j \in DOMAIN rows : rows[j].expense_id = id}}

\* the number of split rows of expense id that user u has among rows
RowsOfUser(rows, id, u) ==
    Cardinality({i \in DOMAIN rows : rows[i].expense_id = id /\ rows[i].user_id = u})

\* C25: a successful amount edit replaces the split set.  When the edit's
\* last call succeeds, the expense has exactly one split row for every user
\* who had one when the edit began and none for any other user, and its rows
\* are the rows the edit inserted: no row from before the edit remains.
C25_EditReplacesSplits ==
    [][\A c \in Clients :
          (session[c].pc = "edit_insert" /\ session'[c].pc = "idle" /\ last'.result = "ok") =>
             LET id == session[c].id
                 prior == Participants(session[c].pre[2], id)
             IN  /\ \A u \in Users :
                       RowsOfUser(expense_splits', id, u) = IF u \in prior THEN 1 ELSE 0
                 /\ SplitsOf(id)' =
                       [i \in DOMAIN session[c].rows |->
                          [expense_id |-> id,
                           user_id |-> session[c].rows[i].user_id,
                           amount |-> session[c].rows[i].amount]]]_vars

\* C26: in every reachable state every stored expense has an amount above 0,
\* and so has every card an edit dialog was opened from: the ratio
\* expenseAmount / expense.amount of an amount edit is never a quotient by 0.
C26_StoredAmountPositive ==
    /\ \A e \in expenses : e.amount > 0
    /\ \A c \in Clients :
          (session[c].expense # NoExpense \/ session[c].pc \in {"edit_delete", "edit_insert"}) =>
             session[c].expense.amount > 0

\* an edit to a valid amount has computed its ratio from a card, after an edit
\* to an amount that is not positive had been answered "Invalid amount"
C26_Witness ==
    \E c \in Clients :
       /\ session[c].pc = "edit_delete"
       /\ session[c].amount # session[c].expense.amount
       /\ last.client = c
       /\ last.op = "edit"
       /\ last.result = "invalid_amount"
       /\ ExpenseStored(session[c].id)

\* C27: no staleness window.  When an amount edit or a delete made from an
\* expense card has committed and the refresh it triggers is done, the member
\* balances the group view of that client shows are the balances of the
\* committed rows.
C27_CardRefreshShowsBalances ==
    [][(last' # last /\ last'.result = "ok" /\ last'.op \in {"edit", "delete"}) =>
          shown'[last'.client].members =
             BalancesIn(Database', selectedGroup[last'.client])]_vars

\* C28: the three balance computations agree.  In every committed state, for
\* every group and every member of it, the client fold of the group view and
\* the client fold of the dashboard return the value calculate_user_balance
\* returns.
C28_BalanceComputationsAgree ==
    \A g \in GroupIds : \A u \in MembersOf(g) :
       /\ groupViewBalance(u, g) = rpcBalance(u, g)
       /\ dashboardBalance(u, g) = rpcBalance(u, g)

\* C29: no split row ever references an expense that is not stored, and the
\* INSERT of an amount edit that comes after a delete of the same expense
\* fails and stores nothing; one that comes before it is stored and goes with
\* the expense (C11, C23).
C29_NoOrphanSplit ==
    [][/\ \A i \in DOMAIN expense_splits' :
             \E e \in expenses' : e.id = expense_splits'[i].expense_id
       /\ \A c \in Clients :
             (/\ session[c].pc = "edit_insert"
              /\ ~ExpenseStored(session[c].id)
              /\ session'[c].pc = "idle") =>
                /\ UNCHANGED expense_splits
                /\ last'.result = "error"]_vars

\* an amount edit began while the expense was stored, the expense was deleted
\* between its calls, and its INSERT has failed: no split row is left
C29_Witness ==
    /\ last.op = "edit"
    /\ last.result = "error"
    /\ \E e \in last.pre[1] : e.id = last.id
    /\ Deleted(last.id)
    /\ expense_splits = <<>>
    /\ AllIdle

\* C30: an edit that leaves the amount as the dialog's card has it writes no
\* split.  The calls on expense_splits are started by an edit whose amount
\* differs from the card's only, and an edit that ends with its first call
\* leaves the split rows as they are.
C30_SameAmountKeepsSplits ==
    [][\A c \in Clients :
          /\ (session[c].pc = "idle" /\ session'[c].pc = "edit_delete") =>
                session'[c].amount # session[c].expense.amount
          /\ (/\ session[c].pc = "idle"
              /\ last' # last
              /\ last'.client = c
              /\ last'.op = "edit") => UNCHANGED expense_splits]_vars

\* the payer has saved the edit dialog of a stored expense with the amount
\* unchanged: the edit has succeeded and the tables are what they were
C30_Witness ==
    /\ last.op = "edit"
    /\ last.result = "ok"
    /\ ExpenseStored(last.id)
    /\ SplitsOf(last.id) # <<>>
    /\ Database = last.pre
    /\ AllIdle

====
